---- MODULE Spec2Model ----
(***************************************************************************)
(* Doubt Destroyer (src/app.py): one Analyze run of the Streamlit script.  *)
(*                                                                         *)
(*   AnalyzeClick -> get_comments (paged fetch) -> categorize_comments_    *)
(*   robust (batches, attempts, mapping of the service's result entries,   *)
(*   fallback) -> session state.                                           *)
(*                                                                         *)
(* A comment is a Python dict created by get_comments; the model names it  *)
(* by its position in fetch order (1, 2, ...) and keeps its "category" key *)
(* in the function `category`.  Lists of comments hold references, so a    *)
(* comment appended twice to analyzed_results is the same object twice.    *)
(*                                                                         *)
(* SpecSession follows several runs of the script in one session, each     *)
(* run in one step.                                                        *)
(*                                                                         *)
(* The sizes of the program (batch_size 10, maxResults 100, scan_limit     *)
(* 50..300) are scaled down; max_retries keeps its value.                  *)
(***************************************************************************)
EXTENDS Integers, Sequences, FiniteSets, TLC

\* ---------------------------------------------------------------- sizes
max_retries == 3
\* src/app.py:86 sets 10; scaled
batch_size == 2
\* largest value of the scan_limit slider (src/app.py:36-43 has 50..300)
MaxLimit == 3
\* largest page the comment source returns (maxResults=100 at src/app.py:172)
MaxPageLen == 3
\* page requests the model follows in one run
MaxPages == 4
\* Analyze runs the model follows in one session
MaxRuns == 3
\* entries of a result list the model follows in one attempt
MaxResults == 2
\* fields of a response object
MaxFields == 2

VARIABLES
    pc,               \* position of the script
    scan_limit,       \* sidebar slider
    comments,         \* get_comments: accumulated comments
    next_page_token,  \* get_comments: continuation cursor
    raw_comments,     \* value returned by get_comments
    yt_error,         \* st.error("YouTube API Error") was shown
    warned,           \* st.warning("No comments found or API error.") was shown
    category,         \* the "category" key of each comment dict
    analyzed_results, \* categorize_comments_robust: result list
    i,                \* start of the current batch (0-based)
    attempt,          \* retry loop index
    response_data,    \* parsed response of the current attempt (until mapped)
    results_list,     \* list located in the response
    current,          \* last batch number shown by the progress bar
    analyzed_data,    \* st.session_state.analyzed_data
    data_fetched,     \* st.session_state.data_fetched
    video_stats,      \* st.session_state.video_stats
    \* history of the run, read by the properties only
    page_requests,    \* commentThreads().list(...).execute() calls
    last_page_len,    \* size of the last page received
    cursor_forever,   \* every page so far was nonempty and had a cursor
    requests,         \* chat.completions.create calls for the current batch
    outcomes,         \* how each finished attempt of the current batch ended
    sleeps,           \* seconds of each time.sleep in the except handler, current batch
    fallbacks,        \* runs of the "Final fail" loop for the current batch
    batch_base,       \* Len(analyzed_results) when the current batch began
    consumed,         \* entries of results_list iterated in this attempt
    local_ids,        \* local indices (0..len(batch)-1) named by the entries iterated
                      \* in this attempt, in order
    stats_run,        \* number of the Analyze run that assigned video_stats
    data_run,         \* number of the Analyze run that assigned analyzed_data
    display           \* what the display section did on the last run of the script

vars == << pc, scan_limit, comments, next_page_token, raw_comments, yt_error,
           warned, category, analyzed_results, i, attempt, response_data,
           results_list, current, analyzed_data, data_fetched,
           page_requests, last_page_len, cursor_forever, requests, outcomes, sleeps,
           fallbacks, batch_base, consumed, local_ids,
           video_stats, stats_run, data_run, display >>

fetchVars == << comments, next_page_token, page_requests, last_page_len,
                cursor_forever >>
sessionVars == << analyzed_data, data_fetched, video_stats, stats_run,
                 data_run, display >>
batchHist == << requests, outcomes, sleeps, fallbacks, batch_base >>

Min(a, b) == IF a < b THEN a ELSE b

\* ---------------------------------------------------------------- values
Categories == {"Doubt", "Spam", "Praise", "Misc"}

\* what a result entry may carry under "category": a taxonomy word, any
\* other string, JSON null, or no such key
RespCategories == {"Doubt", "Bogus", "<null>", "<absent>"}

\* integer ids the service may return for a batch: all local indices, the
\* first one too large, and the negative ones down to one Python rejects
RespIds == (0 - (batch_size + 1)) .. batch_size

\* an element of the result list: a dict with an integer id, a dict with
\* no id (or null), a dict with a string id, or something that is no dict
ResEntries ==
    { [shape |-> "dict", idk |-> "int", id |-> j, category |-> c] :
          j \in RespIds, c \in RespCategories }
    \cup { [shape |-> "dict", idk |-> "none", id |-> 0, category |-> "Doubt"],
           [shape |-> "dict", idk |-> "text", id |-> 0, category |-> "Doubt"],
           [shape |-> "junk", idk |-> "none", id |-> 0, category |-> "<absent>"] }

JunkRes == [shape |-> "junk", idk |-> "none", id |-> 0, category |-> "<absent>"]

\* values of a response field: a nonempty list ("M" is a second, different
\* one), the empty list, a truthy value that is no list (a string), a falsy
\* one (null)
FieldValues == {"L", "[]", "text", "null"}
FieldKeys == {"data", "results", "items"}
IsList(v) == v \in {"L", "M", "[]"}
Truthy(v) == v \in {"L", "M", "text"}

\* a JSON object keeps its fields in order and has no key twice
ResponsesOver(values) ==
    { d \in UNION { [1..n -> [key : FieldKeys, val : values]] : n \in 0..MaxFields } :
          \A a, b \in 1..Len(d) : a # b => d[a].key # d[b].key }
Responses == ResponsesOver(FieldValues)

\* ---------------------------------------------------------------- get_video_stats
\* the keys of the dict get_video_stats builds
StatsFields == {"title", "channel", "views", "likes", "comment_count", "thumbnail"}

\* a Python value held in video_stats: None, or a dict with the given keys
PyNone == [py |-> "None", keys |-> {}]
PyDict(ks) == [py |-> "dict", keys |-> ks]

\* what get_video_stats returns: the dict when response['items'] is not
\* empty; None when it is empty (the function ends without a return) and
\* when the lookup raises (st.error, return None)
VideoStatsResults == { PyDict(StatsFields), PyNone }

\* ---------------------------------------------------------------- get_comments
LoopCondOffByOne == Len(comments) <= scan_limit

\* while len(comments) < limit
LoopCond == Len(comments) < scan_limit

SliceNothing(cs, limit) == cs

\* comments[:limit]
SliceToLimit(cs, limit) == SubSeq(cs, 1, Min(limit, Len(cs)))

FailReturnPartial == comments

\* the value get_comments returns from its except branch
FailReturn == << >>

\* the items of one page, numbered in fetch order
PageItems(k) == [ j \in 1..k |-> Len(comments) + j ]

\* a comment dict is created without a "category" key
WithNewComments(cat, n) ==
    [ c \in 1..n |-> IF c \in DOMAIN cat THEN cat[c] ELSE "unset" ]

\* ---------------------------------------------------------------- categorize_comments_robust
BatchOneMore == SubSeq(raw_comments, i + 1, Min(i + batch_size + 1, Len(raw_comments)))

\* batch = comments[i:i+batch_size]
Batch == SubSeq(raw_comments, i + 1, Min(i + batch_size, Len(raw_comments)))

\* batch_text = [{"id": idx, "text": c['text']} for idx, c in enumerate(batch)]:
\* the comment sent under each id
batch_text == [ idx \in 0..(Len(Batch) - 1) |-> Batch[idx + 1] ]

\* range(0, len(comments), batch_size)
BatchStarts == { j \in 0..(Len(raw_comments) - 1) : j % batch_size = 0 }

total_batchesFloor == Len(raw_comments) \div batch_size

\* total_batches = len(comments) // batch_size + (1 if len(comments) % batch_size != 0 else 0)
total_batches ==
    (Len(raw_comments) \div batch_size)
        + (IF Len(raw_comments) % batch_size # 0 THEN 1 ELSE 0)

\* min(current / total_batches, 1.0), as the fraction << numerator, denominator >>
ProgressShown(cur) ==
    IF cur < total_batches THEN << cur, total_batches >> ELSE << 1, 1 >>

HasKey(d, k) == \E j \in 1..Len(d) : d[j].key = k
GetKey(d, k) == d[CHOOSE j \in 1..Len(d) : d[j].key = k].val

\* for val in response_data.values(): if isinstance(val, list): ... break
FirstList(d) ==
    IF \E j \in 1..Len(d) : IsList(d[j].val)
    THEN d[CHOOSE j \in 1..Len(d) :
               /\ IsList(d[j].val)
               /\ \A k \in 1..(j - 1) : ~IsList(d[k].val)].val
    ELSE "[]"

LocateListResultsOnly(d) ==
    IF HasKey(d, "results") THEN GetKey(d, "results") ELSE "[]"

\* the "smart parser"
LocateList(d) ==
    IF HasKey(d, "data") THEN GetKey(d, "data")
    ELSE IF HasKey(d, "results") THEN GetKey(d, "results")
    ELSE FirstList(d)

\* res.get("category", "Misc")
GetCategory(r) ==
    IF r.category = "<absent>" THEN "Misc"
    ELSE IF r.category = "<null>" THEN "None"
    ELSE r.category

\* res.get("id") is not None and res["id"] < len(batch)
IdAccepted(r, n) == r.idk # "none" /\ r.id < n

\* batch[res["id"]]: a negative index counts from the end
PyIndex(b, k) == IF k >= 0 THEN b[k + 1] ELSE b[Len(b) + k + 1]
PyIndexInRange(b, k) == (0 - Len(b)) <= k /\ k < Len(b)

IsLastAttemptOneEarly(a) == a = max_retries - 2

\* if attempt == max_retries - 1
IsLastAttempt(a) == a = max_retries - 1

LoopContinuesOnRateLimitOnly(how, a) == how = "ratelimit" /\ a + 1 < max_retries

\* for attempt in range(max_retries), after `except Exception` caught the
\* failure `how`: the handler neither breaks nor re-raises, whatever it caught
LoopContinues(how, a) == a + 1 < max_retries

RetryPauseExponential == 2 ^ attempt

\* time.sleep(2) # Brief pause before retry
RetryPause == 2

\* c["category"] = "Misc"
FallbackCategory == "Misc"

FallbackEntriesShort(b) == SubSeq(b, 1, Len(b) - 1)

\* for c in batch: ... analyzed_results.append(c)
FallbackEntries(b) == b

InSeq(x, s) == \E k \in 1..Len(s) : s[k] = x

\* ---------------------------------------------------------------- Init
Init ==
    /\ pc = "idle"
    /\ scan_limit \in 1..MaxLimit
    /\ comments = << >>
    /\ next_page_token = "None"
    /\ raw_comments = << >>
    /\ yt_error = FALSE
    /\ warned = FALSE
    /\ category = << >>
    /\ analyzed_results = << >>
    /\ i = 0
    /\ attempt = 0
    /\ response_data = << >>
    /\ results_list = "[]"
    /\ current = 0
    /\ analyzed_data = << >>
    /\ data_fetched = FALSE
    /\ page_requests = 0
    /\ last_page_len = 0
    /\ cursor_forever = TRUE
    /\ requests = 0
    /\ outcomes = << >>
    /\ sleeps = << >>
    /\ fallbacks = 0
    /\ batch_base = 0
    /\ consumed = 0
    /\ local_ids = << >>
    /\ video_stats = PyDict({})
    /\ stats_run = 0
    /\ data_run = 0
    /\ display = "nothing"

\* ---------------------------------------------------------------- the Analyze flow
\* if analyze_btn: ... the URL or a key is missing, or the URL has no id
AnalyzeRejected ==
    /\ pc = "idle"
    /\ pc' = "rejected"
    /\ UNCHANGED << scan_limit, raw_comments, yt_error, warned, category,
                    analyzed_results, i, attempt, response_data, results_list,
                    current, consumed, local_ids >>
    /\ UNCHANGED << fetchVars, sessionVars, batchHist >>

\* if analyze_btn: ... video_stats is assigned and get_comments is entered
AnalyzeClick ==
    /\ pc = "idle"
    /\ pc' = "fetch"
    /\ video_stats' \in VideoStatsResults
    /\ stats_run' = stats_run + 1
    /\ comments' = << >>
    /\ next_page_token' = "None"
    /\ UNCHANGED << scan_limit, raw_comments, yt_error, warned, category,
                    analyzed_results, i, attempt, response_data, results_list,
                    current, consumed, local_ids,
                    page_requests, last_page_len, cursor_forever >>
    /\ UNCHANGED << analyzed_data, data_fetched, data_run, display >>
    /\ UNCHANGED batchHist

\* one turn of the while loop: a page of k items arrives, with or without
\* a continuation cursor
FetchPage ==
    /\ pc = "fetch"
    /\ LoopCond
    /\ page_requests < MaxPages
    /\ \E k \in 0..MaxPageLen, tok \in {"None", "tok"} :
        /\ comments' = comments \o PageItems(k)
        /\ category' = WithNewComments(category, Len(comments) + k)
        /\ next_page_token' = tok
        /\ last_page_len' = k
        /\ cursor_forever' = (cursor_forever /\ k > 0 /\ tok # "None")
        /\ pc' = IF tok = "None" THEN "fetch_done" ELSE "fetch"
    /\ page_requests' = page_requests + 1
    /\ UNCHANGED << scan_limit, raw_comments, yt_error, warned,
                    analyzed_results, i, attempt, response_data, results_list,
                    current, consumed, local_ids >>
    /\ UNCHANGED << sessionVars, batchHist >>

\* request.execute() raises: st.error, return []; then `if raw_comments`
\* is false and the warning is shown
FetchFail ==
    /\ pc = "fetch"
    /\ LoopCond
    /\ page_requests < MaxPages
    /\ page_requests' = page_requests + 1
    /\ yt_error' = TRUE
    /\ raw_comments' = FailReturn
    /\ IF raw_comments' # << >>
       THEN pc' = "request" /\ warned' = warned
       ELSE pc' = "warned" /\ warned' = TRUE
    /\ UNCHANGED << scan_limit, category, analyzed_results, i, attempt,
                    response_data, results_list, current, consumed, local_ids, comments, next_page_token,
                    last_page_len, cursor_forever >>
    /\ UNCHANGED << sessionVars, batchHist >>

\* return comments[:limit]; then `if raw_comments` and the first lines of
\* categorize_comments_robust.  The locals of get_comments, and the comments
\* the slice left out, are dead from here on and are cleared
ReturnComments ==
    /\ \/ pc = "fetch_done"
       \/ pc = "fetch" /\ ~LoopCond
    /\ raw_comments' = SliceToLimit(comments, scan_limit)
    /\ IF raw_comments' # << >>
       THEN pc' = "request" /\ warned' = warned
       ELSE pc' = "warned" /\ warned' = TRUE
    /\ category' = [ c \in 1..Len(raw_comments') |-> category[c] ]
    /\ comments' = << >>
    /\ next_page_token' = "None"
    /\ page_requests' = 0
    /\ last_page_len' = 0
    /\ cursor_forever' = TRUE
    /\ analyzed_results' = << >>
    /\ i' = 0
    /\ attempt' = 0
    /\ UNCHANGED << scan_limit, yt_error, response_data,
                    results_list, current, consumed, local_ids >>
    /\ UNCHANGED << sessionVars, batchHist >>

\* ---------------------------------------------------------------- one attempt
FallbackInFront ==
    /\ analyzed_results' = FallbackEntries(Batch) \o analyzed_results
    /\ category' = [ c \in DOMAIN category |->
                       IF InSeq(c, Batch) THEN FallbackCategory ELSE category[c] ]
    /\ fallbacks' = fallbacks + 1

\* "Final fail: Mark batch as Misc"
Fallback ==
    /\ analyzed_results' = analyzed_results \o FallbackEntries(Batch)
    /\ category' = [ c \in DOMAIN category |->
                       IF InSeq(c, Batch) THEN FallbackCategory ELSE category[c] ]
    /\ fallbacks' = fallbacks + 1

\* except Exception: time.sleep(2), recorded in sleeps; the fallback on the
\* last attempt; then the for loop over range(max_retries) goes on or ends
Except(how) ==
    /\ outcomes' = Append(outcomes, how)
    /\ sleeps' = Append(sleeps, RetryPause)
    /\ IF IsLastAttempt(attempt)
       THEN Fallback
       ELSE UNCHANGED << analyzed_results, category, fallbacks >>
    /\ IF LoopContinues(how, attempt)
       THEN pc' = "request" /\ attempt' = attempt + 1
       ELSE pc' = "update_ui" /\ attempt' = attempt
    /\ response_data' = << >>
    /\ results_list' = "[]"
    /\ consumed' = 0
    /\ local_ids' = << >>

\* the smart parser on the parsed response d and `if results_list:`; an
\* empty or missing list raises "No list found in AI response"
Parse(d) ==
    IF Truthy(LocateList(d))
    THEN /\ results_list' = LocateList(d)
         /\ pc' = "map"
         /\ consumed' = 0
         /\ local_ids' = << >>
         /\ UNCHANGED << analyzed_results, category, attempt, response_data,
                         outcomes, sleeps, fallbacks >>
    ELSE Except("nolist")

\* client.chat.completions.create(...) and json.loads, then the parser:
\* the call raises a rate-limit error, the call or json.loads raises
\* another error, or a response object is parsed
Request ==
    /\ pc = "request"
    /\ requests' = requests + 1
    /\ \/ \E how \in {"ratelimit", "error"} : Except(how)
       \/ \E d \in Responses : Parse(d)
    /\ UNCHANGED << scan_limit, raw_comments, yt_error, warned, i, current,
                    batch_base >>
    /\ UNCHANGED << fetchVars, sessionVars >>

\* the parser on a response held in response_data
ParseResponse ==
    /\ pc = "parse"
    /\ Parse(response_data)
    /\ UNCHANGED << scan_limit, raw_comments, yt_error, warned, i, current,
                    requests, batch_base >>
    /\ UNCHANGED << fetchVars, sessionVars >>

\* the entry r names one of the local indices 0..n-1 sent with the batch
IsLocal(r, n) == r.shape = "dict" /\ r.idk = "int" /\ r.id \in 0..(n - 1)

\* the body of the mapping loop on the element r
MapBody(r) ==
    IF r.shape = "junk"
    THEN Except("mapfail")                       \* res.get: AttributeError
    ELSE IF r.idk = "text"
    THEN Except("mapfail")                       \* str < int: TypeError
    ELSE IF ~IdAccepted(r, Len(Batch))
    THEN /\ pc' = "map"
         /\ response_data' = << >>
         /\ consumed' = consumed + 1
         /\ local_ids' = local_ids
         /\ UNCHANGED << analyzed_results, category, attempt, results_list,
                         outcomes, sleeps, fallbacks >>
    ELSE IF ~PyIndexInRange(Batch, r.id)
    THEN Except("mapfail")                       \* batch[...]: IndexError
    ELSE /\ analyzed_results' = Append(analyzed_results, PyIndex(Batch, r.id))
         /\ category' = [ category EXCEPT ![PyIndex(Batch, r.id)] = GetCategory(r) ]
         /\ pc' = "map"
         /\ response_data' = << >>
         /\ consumed' = consumed + 1
         /\ local_ids' = IF IsLocal(r, Len(Batch))
                         THEN Append(local_ids, r.id) ELSE local_ids
         /\ UNCHANGED << attempt, results_list, outcomes, sleeps, fallbacks >>

\* the elements results_list yields: a list yields any entry; a truthy
\* value that is no list (a string, a dict) yields elements that are no dicts
Elements(v) == IF IsList(v) THEN ResEntries ELSE {JunkRes}

\* for res in results_list: one turn of the mapping loop
MapRes ==
    /\ pc = "map"
    /\ consumed < MaxResults
    /\ \E r \in Elements(results_list) : MapBody(r)
    /\ UNCHANGED << scan_limit, raw_comments, yt_error, warned, i, current,
                    requests, batch_base >>
    /\ UNCHANGED << fetchVars, sessionVars >>

\* the result list is exhausted: break # Success
EndList ==
    /\ pc = "map"
    /\ consumed >= 1
    /\ IsList(results_list)
    /\ outcomes' = Append(outcomes, "ok")
    /\ sleeps' = sleeps
    /\ pc' = "update_ui"
    /\ response_data' = << >>
    /\ results_list' = "[]"
    /\ consumed' = 0
    /\ local_ids' = << >>
    /\ UNCHANGED << scan_limit, raw_comments, yt_error, warned, category,
                    analyzed_results, i, attempt, current, requests, fallbacks,
                    batch_base >>
    /\ UNCHANGED << fetchVars, sessionVars >>

UpdateUIThenFetch ==
    /\ pc = "update_ui"
    /\ current' = (i \div batch_size) + 1
    /\ pc' = "fetch"
    /\ requests' = 0
    /\ outcomes' = << >>
    /\ sleeps' = << >>
    /\ fallbacks' = 0
    /\ batch_base' = Len(analyzed_results)
    /\ UNCHANGED << scan_limit, raw_comments, yt_error, warned, category,
                    analyzed_results, i, attempt, response_data, results_list,
                    consumed, local_ids >>
    /\ UNCHANGED << fetchVars, sessionVars >>

\* "Update UI", then the next batch or the end of the loop over batches
UpdateUI ==
    /\ pc = "update_ui"
    /\ current' = (i \div batch_size) + 1
    /\ IF i + batch_size < Len(raw_comments)
       THEN /\ i' = i + batch_size
            /\ attempt' = 0
            /\ pc' = "request"
       ELSE /\ pc' = "return"
            /\ UNCHANGED << i, attempt >>
    /\ requests' = 0
    /\ outcomes' = << >>
    /\ sleeps' = << >>
    /\ fallbacks' = 0
    /\ batch_base' = Len(analyzed_results)
    /\ UNCHANGED << scan_limit, raw_comments, yt_error, warned, category,
                    analyzed_results, response_data, results_list, consumed,
                    local_ids >>
    /\ UNCHANGED << fetchVars, sessionVars >>

\* return analyzed_results; the session state keeps it
StoreResults ==
    /\ pc = "return"
    /\ analyzed_data' = analyzed_results
    /\ data_fetched' = TRUE
    /\ data_run' = stats_run
    /\ pc' = "done"
    /\ UNCHANGED << video_stats, stats_run, display >>
    /\ UNCHANGED << scan_limit, raw_comments, yt_error, warned, category,
                    analyzed_results, i, attempt, response_data, results_list,
                    current, consumed, local_ids >>
    /\ UNCHANGED << fetchVars, batchHist >>

Next ==
    \/ AnalyzeRejected
    \/ AnalyzeClick
    \/ FetchPage
    \/ FetchFail
    \/ ReturnComments
    \/ Request
    \/ MapRes
    \/ EndList
    \/ UpdateUI
    \/ StoreResults

Spec == Init /\ [][Next]_vars

\* ---------------------------------------------------------------- the fetch alone
\* The run up to the return of get_comments and the `if raw_comments` test.
NextFetch ==
    \/ AnalyzeRejected
    \/ AnalyzeClick
    \/ FetchPage
    \/ FetchFail
    \/ ReturnComments

SpecFetch == Init /\ [][NextFetch]_vars

\* ---------------------------------------------------------------- the session
\* Several runs of the script in one browser session; st.session_state
\* lives on from one run to the next.  A run with the button pressed is one
\* step here, the results of get_video_stats, get_comments and
\* categorize_comments_robust being its inputs; Spec has the steps inside.

\* the keys the display section reads from video_stats
DisplayFields == {"views", "likes", "comment_count", "thumbnail", "title"}

\* lists categorize_comments_robust may return for the comments cs
ResultLists(cs) == { SubSeq(cs, 1, k) : k \in 0..Len(cs) }

\* if analyze_btn: with a URL that has a video id and both keys
SessionAnalyze ==
    /\ pc = "idle"
    /\ stats_run < MaxRuns
    /\ video_stats' \in VideoStatsResults
    /\ stats_run' = stats_run + 1
    /\ \E n \in 0..scan_limit, failed \in BOOLEAN :
          /\ yt_error' = failed
          /\ raw_comments' = IF failed THEN FailReturn ELSE [ j \in 1..n |-> j ]
    /\ IF raw_comments' # << >>
       THEN /\ \E res \in ResultLists(raw_comments') : analyzed_data' = res
            /\ data_fetched' = TRUE
            /\ data_run' = stats_run'
            /\ warned' = FALSE
            /\ pc' = "done"
       ELSE /\ warned' = TRUE
            /\ pc' = "warned"
            /\ UNCHANGED << analyzed_data, data_fetched, data_run >>
    /\ UNCHANGED << scan_limit, category, analyzed_results, i, attempt,
                    response_data, results_list, current, consumed, local_ids,
                    display >>
    /\ UNCHANGED << fetchVars, batchHist >>

\* "DISPLAY RESULTS": if st.session_state.data_fetched, the metrics row
\* subscripts video_stats; then the script has run to its end
Display ==
    /\ pc \in {"rejected", "done", "warned"}
    /\ display' = IF ~data_fetched THEN "nothing"
                  ELSE IF video_stats.py = "None" THEN "TypeError"
                  ELSE IF ~(DisplayFields \subseteq video_stats.keys) THEN "KeyError"
                  ELSE "results"
    /\ pc' = "idle"
    /\ UNCHANGED << scan_limit, raw_comments, yt_error, warned, category,
                    analyzed_results, i, attempt, response_data, results_list,
                    current, consumed, local_ids,
                    analyzed_data, data_fetched, video_stats, stats_run, data_run >>
    /\ UNCHANGED << fetchVars, batchHist >>

NextSession ==
    \/ AnalyzeRejected
    \/ SessionAnalyze
    \/ Display

SpecSession == Init /\ [][NextSession]_vars

\* ---------------------------------------------------------------- the parser alone
\* A first attempt on a full first batch, at the point where json.loads has
\* returned the response object: the parser's input is drawn from all
\* response shapes and stays in response_data until the mapping loop runs.
InitParse ==
    /\ pc = "parse"
    /\ scan_limit = MaxLimit
    /\ raw_comments = [ j \in 1..Min(batch_size, MaxLimit) |-> j ]
    /\ category = [ j \in 1..Min(batch_size, MaxLimit) |-> "unset" ]
    /\ response_data \in ResponsesOver(FieldValues \cup {"M"})
    /\ requests = 1
    /\ comments = << >>
    /\ next_page_token = "None"
    /\ yt_error = FALSE
    /\ warned = FALSE
    /\ analyzed_results = << >>
    /\ i = 0
    /\ attempt = 0
    /\ results_list = "[]"
    /\ current = 0
    /\ analyzed_data = << >>
    /\ data_fetched = FALSE
    /\ page_requests = 0
    /\ last_page_len = 0
    /\ cursor_forever = TRUE
    /\ outcomes = << >>
    /\ sleeps = << >>
    /\ fallbacks = 0
    /\ batch_base = 0
    /\ consumed = 0
    /\ local_ids = << >>
    /\ video_stats = PyDict(StatsFields)
    /\ stats_run = 1
    /\ data_run = 0
    /\ display = "nothing"

NextParse ==
    \/ ParseResponse
    \/ Request
    \/ MapRes
    \/ EndList
    \/ UpdateUI
    \/ StoreResults

SpecParse == InitParse /\ [][NextParse]_vars

\* ---------------------------------------------------------------- properties
Last(s) == s[Len(s)]
Count(x, s) == Cardinality({ k \in 1..Len(s) : s[k] = x })

\* what the current batch has added to the result list so far
Contribution == SubSeq(analyzed_results, batch_base + 1, Len(analyzed_results))

\* failures of an attempt before any result entry is mapped
BeforeMapping == {"ratelimit", "error", "nolist"}
\* a classification error that is no rate limit, or no list in the response
NonRetryable == {"error", "nolist"}

AllOutcomesIn(S) == \A k \in 1..Len(outcomes) : outcomes[k] \in S

\* C1 - total preservation: the returned list has as many entries as the
\* input list, and holds every input comment exactly once.
Claim_C1_TotalPreservation ==
    pc = "done" =>
        /\ Len(analyzed_data) = Len(raw_comments)
        /\ \A k \in 1..Len(raw_comments) : Count(raw_comments[k], analyzed_data) = 1

\* C2 - category closure: every entry of the result list has one of the
\* four categories.
Claim_C2_CategoryClosure ==
    \A k \in 1..Len(analyzed_results) : category[analyzed_results[k]] \in Categories

\* C3 - missing index falls back: when an attempt succeeds, a comment whose
\* local index no entry of the list named is in the result list with Misc.
Claim_C3_MissingIndexFallsBack ==
    [][ (pc = "map" /\ pc' = "update_ui" /\ Last(outcomes') = "ok") =>
            \A li \in 0..(Len(Batch) - 1) :
                ~InSeq(li, local_ids) =>
                    /\ InSeq(Batch[li + 1], Contribution')
                    /\ category'[Batch[li + 1]] = "Misc" ]_vars

\* C4 - index robustness: a turn of the mapping loop on an entry that names
\* no local index of the batch appends nothing and changes no category.
Claim_C4_IndexRobustness ==
    [][ (pc = "map" /\ pc' = "map" /\ local_ids' = local_ids) =>
            /\ analyzed_results' = analyzed_results
            /\ category' = category ]_vars

\* C5 as stated - no retry on a non-retryable failure: such a failure is the
\* batch's last attempt and is followed at once by the fallback.
Claim_C5_NoRetryOnNonRetryable ==
    \A k \in 1..Len(outcomes) :
        outcomes[k] \in NonRetryable =>
            /\ k = Len(outcomes)
            /\ requests = k
            /\ pc = "update_ui"
            /\ fallbacks = 1

\* C5 as amended - every failed attempt is retried alike: whatever made an
\* attempt fail, the batch gets another request until one attempt succeeds
\* or max_retries requests were made; the fallback runs once, after the
\* failure of the last of them, and never earlier.
Thm_C5_RetryOnAnyFailure ==
    /\ requests <= max_retries
    /\ \A k \in 1..Len(outcomes) :
           (outcomes[k] # "ok" /\ k < max_retries) =>
               \/ requests > k
               \/ (pc = "request" /\ attempt = k /\ requests = k)
    /\ fallbacks = (IF Len(outcomes) = max_retries /\ Last(outcomes) # "ok"
                    THEN 1 ELSE 0)
    /\ pc = "update_ui" =>
           \/ Last(outcomes) = "ok"
           \/ (requests = max_retries /\ Len(outcomes) = max_retries)

Witness_C5 ==
    /\ pc = "update_ui"
    /\ outcomes = << "error", "nolist", "error" >>
    /\ requests = max_retries
    /\ fallbacks = 1

\* C6 - backoff bound: on a batch whose requests all raise the rate-limit
\* signal there are exactly max_retries requests, then one fallback and the
\* end of the batch; no fallback before the last attempt.
Thm_C6_BackoffBound ==
    AllOutcomesIn({"ratelimit"}) =>
        /\ requests <= max_retries
        /\ fallbacks = (IF Len(outcomes) = max_retries THEN 1 ELSE 0)
        /\ pc = "update_ui" => (requests = max_retries /\ Len(outcomes) = max_retries)
        /\ Len(outcomes) = max_retries => pc = "update_ui"

Witness_C6 ==
    /\ pc = "update_ui"
    /\ outcomes = << "ratelimit", "ratelimit", "ratelimit" >>
    /\ requests = max_retries
    /\ fallbacks = 1
    /\ i + batch_size < Len(raw_comments)

\* C7 - full fallback: a batch whose attempts all fail before any result is
\* mapped adds exactly its own comments, once each, in their order, all Misc.
Thm_C7_FullFallback ==
    (pc = "update_ui" /\ AllOutcomesIn(BeforeMapping)) =>
        /\ Contribution = Batch
        /\ \A k \in 1..Len(Batch) : category[Batch[k]] = "Misc"

Witness_C7 ==
    /\ pc = "update_ui"
    /\ AllOutcomesIn(BeforeMapping)
    /\ InSeq("error", outcomes)
    /\ Len(Batch) = batch_size
    /\ Contribution = Batch

\* C8 - schema tolerance: a response with the one field "data", "results"
\* or any other key, holding a nonempty list, has that list located; a
\* response with no list-valued field makes the attempt fail with nothing
\* appended.
HasListField(d) == \E j \in 1..Len(d) : IsList(d[j].val)
NoListResponse == response_data # << >> /\ ~HasListField(response_data)

Thm_C8_SchemaTolerance ==
    /\ [][ ( /\ pc = "parse"
              /\ Len(response_data) = 1
              /\ response_data[1].val \in {"L", "M"} )
            => ( /\ pc' = "map"
                 /\ results_list' = response_data[1].val
                 /\ outcomes' = outcomes ) ]_vars
    /\ [][ NoListResponse =>
             /\ analyzed_results' = analyzed_results
             /\ \/ /\ pc' = "map"
                   /\ ~IsList(results_list')
                   /\ outcomes' = outcomes
                \/ /\ pc' = "request"
                   /\ Len(outcomes') = Len(outcomes) + 1
                   /\ Last(outcomes') \in {"nolist", "mapfail"} ]_vars

Witness_C8 ==
    /\ pc = "map"
    /\ Len(response_data) = 1
    /\ response_data[1].key = "items"
    /\ response_data[1].val = "L"
    /\ results_list = "L"

\* C9 - pagination termination: once len(comments) >= limit no further page
\* is requested and get_comments returns; with a source whose pages are all
\* nonempty and carry a cursor, at most `limit` pages are requested and the
\* fetched count exceeds the limit by less than the last page.
Thm_C9_PaginationTermination ==
    /\ [][ Len(comments) >= scan_limit =>
             /\ page_requests' <= page_requests
             /\ pc' \in {"request", "warned"} ]_vars
    /\ [] ( (pc = "fetch" /\ cursor_forever) =>
              /\ page_requests <= scan_limit
              /\ Len(comments) >= page_requests
              /\ ~LoopCond => Len(comments) - scan_limit < last_page_len )

Witness_C9 ==
    /\ pc = "fetch"
    /\ cursor_forever
    /\ page_requests >= 2
    /\ Len(comments) > scan_limit

\* C10 as stated - partial results on source failure: after a failed page
\* fetch the run still has the comments of the earlier pages.
Claim_C10_PartialResultsKept ==
    yt_error => raw_comments = comments

\* C10 as amended - a failed page fetch shows the YouTube error and makes
\* get_comments return the empty list: the comments of the earlier pages
\* are discarded, nothing is classified or stored, and the run ends with
\* the "No comments found or API error." warning.
Thm_C10_FetchFailureReturnsNothing ==
    yt_error =>
        /\ raw_comments = << >>
        /\ pc = "warned"
        /\ warned
        /\ analyzed_results = << >>
        /\ analyzed_data = << >>
        /\ ~data_fetched

Witness_C10 ==
    /\ yt_error
    /\ pc = "warned"
    /\ page_requests >= 3
    /\ Len(comments) >= 2

\* C11 - count invariant: processedCount <= fetchedCount <= targetLimit +
\* (batchSize - 1) at all times.  fetchedCount is len(comments) while
\* get_comments runs; once it has returned, the chain still bounds
\* processedCount = len(analyzed_results) by targetLimit + (batchSize - 1).
Claim_C11_CountInvariant ==
    /\ pc \in {"fetch", "fetch_done"} =>
           /\ Len(analyzed_results) <= Len(comments)
           /\ Len(comments) <= scan_limit + (batch_size - 1)
    /\ Len(analyzed_results) <= scan_limit + (batch_size - 1)

\* C12 - per-batch atomicity: a batch resolves into the entries of one
\* successful attempt or into the full fallback.  What an attempt appended
\* before it failed is gone when the next request is made, and a batch
\* that ended in the fallback has contributed its own comments and no more.
Claim_C12_PerBatchAtomicity ==
    /\ pc = "request" => Contribution = << >>
    /\ (pc = "update_ui" /\ fallbacks = 1) => Contribution = Batch

\* C13 as stated - fetch/classify ordering: when the request for a further
\* page is issued, every comment of the pages fetched before it has been
\* classified (it is in the result list).
Claim_C13_ClassifiedBeforeNextPage ==
    [][ page_requests' > page_requests =>
            \A k \in 1..Len(comments) : InSeq(comments[k], analyzed_results) ]_vars

\* the positions of the script inside categorize_comments_robust and after it
ClassifyPcs == {"request", "map", "update_ui", "return", "done"}

\* C13 as amended - fetch everything, then classify: every page request of
\* a run is issued before the first classification request.  While pages
\* are requested nothing is classified, and once get_comments has returned
\* no page is requested and the script never goes back to fetching.
Thm_C13_FetchAllThenClassify ==
    /\ [][ page_requests' > page_requests =>
             ( /\ pc = "fetch"
               /\ requests = 0
               /\ analyzed_results = << >>
               /\ \A c \in DOMAIN category : category[c] = "unset" ) ]_vars
    /\ [][ (pc \in ClassifyPcs) =>
             ( /\ pc' \in ClassifyPcs
               /\ page_requests' = page_requests
               /\ comments' = comments ) ]_vars
    /\ [][ requests' > requests => pc = "request" ]_vars

Witness_C13 ==
    /\ pc = "fetch"
    /\ page_requests = 2
    /\ last_page_len >= 1
    /\ Len(comments) > last_page_len
    /\ \A c \in DOMAIN category : category[c] = "unset"
    /\ analyzed_results = << >>

\* s is an initial part of t
IsPrefix(s, t) == Len(s) <= Len(t) /\ SubSeq(t, 1, Len(s)) = s

\* the batch a comment of the input list belongs to (0, 1, ...): the
\* comment at position c (1-based) lies in comments[i:i+batch_size] for
\* i = batch_size * BatchOf(c)
BatchOf(c) == (c - 1) \div batch_size

\* C14 - append-only batch order: the result list only grows at its end,
\* no entry is removed or moved; and in it, hence in the returned list,
\* every entry of a batch j precedes every entry of a batch k > j.
Thm_C14_AppendOnlyBatchOrder ==
    /\ [][ IsPrefix(analyzed_results, analyzed_results') ]_vars
    /\ [] ( \A p, q \in 1..Len(analyzed_results) :
                p < q => BatchOf(analyzed_results[p]) <= BatchOf(analyzed_results[q]) )
    /\ [] ( pc = "done" => analyzed_data = analyzed_results )

Witness_C14 ==
    /\ pc = "done"
    /\ Len(analyzed_data) >= 3
    /\ BatchOf(analyzed_data[1]) = 0
    /\ BatchOf(Last(analyzed_data)) = 1
    /\ \E p \in 1..Len(analyzed_data) : analyzed_data[p] = 2

\* comments[j:j+batch_size], the slice taken at the start j
BatchAt(j) == SubSeq(raw_comments, j + 1, Min(j + batch_size, Len(raw_comments)))

\* the slices at the starts j, j + batch_size, ... put end to end
RECURSIVE ConcatFrom(_)
ConcatFrom(j) ==
    IF j >= Len(raw_comments) THEN << >>
    ELSE BatchAt(j) \o ConcatFrom(j + batch_size)

\* ceil(n / batch_size)
CeilDiv(n, d) == (n + d - 1) \div d

\* C15 - batch partition: the batches put end to end are the input list in
\* its order; every batch has batch_size comments but the last, which has
\* 1..batch_size; the id sent with a comment is its zero-based position in
\* its batch; the batches are processed one by one and their number is
\* total_batches = ceil(n / batch_size).
Thm_C15_BatchPartition ==
    /\ [] ( pc \in ClassifyPcs =>
              /\ ConcatFrom(0) = raw_comments
              /\ total_batches = CeilDiv(Len(raw_comments), batch_size)
              /\ Cardinality(BatchStarts) = total_batches )
    /\ [] ( pc \in {"request", "map", "update_ui"} =>
              /\ i \in BatchStarts
              /\ Batch = BatchAt(i)
              /\ Len(Batch) = (IF i + batch_size < Len(raw_comments)
                               THEN batch_size
                               ELSE Len(raw_comments) - i)
              /\ Len(Batch) \in 1..batch_size
              /\ DOMAIN batch_text = 0..(Len(Batch) - 1)
              /\ \A idx \in DOMAIN batch_text :
                     batch_text[idx] = raw_comments[i + idx + 1] )
    /\ [][ (pc = "update_ui") =>
             ( /\ current' = current + 1
               /\ i = (current' - 1) * batch_size ) ]_vars
    /\ [] ( pc \in {"return", "done"} => current = total_batches )

Witness_C15 ==
    /\ pc = "return"
    /\ Len(raw_comments) = batch_size + 1
    /\ current = 2
    /\ Len(Batch) = 1

\* a/b <= c/d for fractions with positive denominators
LeqFrac(x, y) == x[1] * y[2] <= y[1] * x[2]

\* C16 - monotonic progress: every batch, however its attempts ended, is
\* followed by a progress update before the next batch or the return; the
\* update shows batch number current = i // batch_size + 1, a value that is
\* no less than the one shown before and at most 1.0; the update after the
\* last batch shows current = total_batches, that is 1.0.
Thm_C16_MonotonicProgress ==
    /\ [][ (pc \in {"request", "map"} /\ pc' \notin {"request", "map"}) =>
             pc' = "update_ui" ]_vars
    /\ [][ (pc \in ClassifyPcs /\ (i' # i \/ (pc # "return" /\ pc' = "return"))) =>
             pc = "update_ui" ]_vars
    /\ [][ (pc = "update_ui") =>
             ( /\ current' = (i \div batch_size) + 1
               /\ current' > current
               /\ LeqFrac(ProgressShown(current), ProgressShown(current'))
               /\ LeqFrac(ProgressShown(current'), << 1, 1 >>) ) ]_vars
    /\ [][ (pc # "update_ui") => current' = current ]_vars
    /\ [] ( pc \in {"return", "done"} =>
              /\ current = total_batches
              /\ ProgressShown(current) = << 1, 1 >> )

Witness_C16 ==
    /\ pc = "return"
    /\ total_batches = 2
    /\ current = 2
    /\ ProgressShown(current) = << 1, 1 >>
    /\ i = batch_size

Thm_C18_FetchResultWithinLimit ==
    [][ (pc \in {"fetch", "fetch_done"} /\ pc' \in {"request", "warned"} /\ ~yt_error') =>
          ( /\ Len(raw_comments') <= scan_limit
            /\ IsPrefix(raw_comments', comments)
            /\ \A j \in 1..Len(raw_comments') : raw_comments'[j] = j
            /\ Len(raw_comments') = Min(scan_limit, Len(comments))
            /\ Len(raw_comments') < scan_limit =>
                   (pc = "fetch_done" /\ next_page_token = "None") ) ]_vars

Witness_C18 ==
    /\ pc = "request"
    /\ ~yt_error
    /\ scan_limit = 3
    /\ raw_comments = << 1, 2 >>

\* C19 - displayed state belongs to one run: whenever data_fetched is true,
\* video_stats and analyzed_data were assigned by the same Analyze run.
Claim_C19_DisplayedStateFromOneRun ==
    data_fetched => stats_run = data_run

\* C20 - results are displayed only with metadata present: whenever
\* data_fetched is true, video_stats is a dict with the keys the display
\* reads, and the display section never fails on it.
Claim_C20_StatsPresentWhenDisplayed ==
    /\ data_fetched =>
           /\ video_stats.py = "dict"
           /\ DisplayFields \subseteq video_stats.keys
    /\ display \notin {"TypeError", "KeyError"}

====
